---- MODULE Spec2Model ----
(***************************************************************************)
(* Model of the meaningful_metrics scoring engine                          *)
(* (src/src/meaningful_metrics: schemas.py, metrics.py, scoring.py).       *)
(*                                                                         *)
(* Every operation of the engine is a function of its arguments.  The      *)
(* state holds the caller's records (time entries, priorities, goals, the  *)
(* action log, the weights, the period), the name of the last operation    *)
(* called, what it returned or raised and the calculators it entered.      *)
(* soft_min has its own arguments (a, b, alpha).                           *)
(* Each action is one call.                                                *)
(*                                                                         *)
(* Numbers: a Python float is modelled as an exact rational <<n, d>> with  *)
(* d > 0 in lowest terms; None is the empty tuple.  The rounding of        *)
(* binary64 arithmetic is not modelled, except in soft_min, where every    *)
(* operation is rounded to SignificandBits bits.                           *)
(***************************************************************************)
EXTENDS Integers, Sequences, FiniteSets, TLC

VARIABLES time_entries, priorities, default_priority, goals, actions,
          weights, period, given_alignment, local_relevance, engagement,
          soft_min_args, op, result, calls

vars == <<time_entries, priorities, default_priority, goals, actions,
          weights, period, given_alignment, local_relevance, engagement,
          soft_min_args, op, result, calls>>

inputs == <<time_entries, priorities, default_priority, goals, actions,
            weights, period, given_alignment, local_relevance, engagement,
            soft_min_args>>

(***************************************************************************)
(* Bounds of the model.                                                    *)
(***************************************************************************)
MaxEntries == 2
MaxPriorities == 2
MaxGoals == 2
MaxCount == 2
LocalitySteps == 4

(***************************************************************************)
(* float arithmetic, as exact rationals.                                   *)
(***************************************************************************)
None == <<>>

Abs(x) == IF x < 0 THEN -x ELSE x

RECURSIVE GCD(_, _)
GCD(a, b) == IF b = 0 THEN a ELSE GCD(b, a % b)

Rat(n, d) ==
    LET s == IF d < 0 THEN -1 ELSE 1
        g == GCD(Abs(n), Abs(d))
    IN  <<(s * n) \div g, (s * d) \div g>>

Zero == Rat(0, 1)
Hundred == Rat(100, 1)

RAdd(a, b) == Rat(a[1] * b[2] + b[1] * a[2], a[2] * b[2])
RSub(a, b) == Rat(a[1] * b[2] - b[1] * a[2], a[2] * b[2])
RMul(a, b) == Rat(a[1] * b[1], a[2] * b[2])
RDiv(a, b) == Rat(a[1] * b[2], a[2] * b[1])
RLt(a, b) == a[1] * b[2] < b[1] * a[2]
RLe(a, b) == a[1] * b[2] <= b[1] * a[2]
\* Python's min(a, b): b when b < a, else a.
RMin(a, b) == IF RLt(b, a) THEN b ELSE a

(***************************************************************************)
(* What a call returns or raises.                                          *)
(***************************************************************************)
Ok(v) == [status |-> "ok", value |-> v]
Raise(e) == [status |-> "error", value |-> e]
NoResult == [status |-> "none", value |-> None]

(***************************************************************************)
(* schemas.py: the records.                                                *)
(***************************************************************************)
\* TimeEntry(domain, hours).  A record that went through validation has
\* hours >= 0; one built without it can hold any float, which is what the
\* check in calculate_quality_time_score defends against.
TimeEntry(domain, hours) == [domain |-> domain, hours |-> hours]

\* DomainPriority(domain, priority, max_daily_hours): 0 <= priority <= 1,
\* max_daily_hours is None or > 0.
DomainPriority(domain, priority, max_daily_hours) ==
    [domain |-> domain, priority |-> priority,
     max_daily_hours |-> max_daily_hours]

\* Goal(id, name, domains, target_hours_per_week): target is None or >= 0.
Goal(id, domains, target_hours_per_week) ==
    [id |-> id, name |-> id, domains |-> domains,
     target_hours_per_week |-> target_hours_per_week]

\* ActionLog(consumed, bookmarked, shared, applied): counts >= 0.
ActionLog(consumed, bookmarked, shared, applied) ==
    [consumed |-> consumed, bookmarked |-> bookmarked, shared |-> shared,
     applied |-> applied]

\* ActionWeights(bookmarked, shared, applied), each >= 0.
ActionWeights(bookmarked, shared, applied) ==
    [bookmarked |-> bookmarked, shared |-> shared, applied |-> applied]

\* ActionWeights(): the field defaults 0.3, 0.5, 1.0.
DefaultActionWeights == ActionWeights(Rat(3, 10), Rat(1, 2), Rat(1, 1))

\* DomainMetrics(...): the constructor validates time_spent >= 0,
\* effective_time >= 0, 0 <= priority <= 1 and contribution >= 0, and raises
\* pydantic's ValidationError otherwise.
DomainMetrics(domain, time_spent, effective_time, priority, contribution) ==
    IF /\ RLe(Zero, time_spent)
       /\ RLe(Zero, effective_time)
       /\ RLe(Zero, priority) /\ RLe(priority, Rat(1, 1))
       /\ RLe(Zero, contribution)
    THEN Ok([domain |-> domain, time_spent |-> time_spent,
             effective_time |-> effective_time, priority |-> priority,
             contribution |-> contribution])
    ELSE Raise("ValidationError")

(***************************************************************************)
(* The priority lookup each calculation builds:                            *)
(*     {p.domain: p for p in priorities}                                   *)
(* A later record of a domain replaces an earlier one.                     *)
(***************************************************************************)
\* Mutant of PriorityMap: the first record of a domain wins.
RECURSIVE PriorityMap_FirstWins(_)
PriorityMap_FirstWins(ps) ==
    IF ps = <<>> THEN [d \in {} |-> None]
    ELSE LET p == ps[1]
             m == PriorityMap_FirstWins(Tail(ps))
         IN  [d \in DOMAIN m \cup {p.domain} |->
                 IF d = p.domain THEN p ELSE m[d]]

RECURSIVE PriorityMap(_)
PriorityMap(ps) ==
    IF ps = <<>> THEN [d \in {} |-> None]
    ELSE LET p == ps[Len(ps)]
             m == PriorityMap(SubSeq(ps, 1, Len(ps) - 1))
         IN  [d \in DOMAIN m \cup {p.domain} |->
                 IF d = p.domain THEN p ELSE m[d]]

\* dict.get(key): the value, or None.  The value is wrapped in a 1-tuple so
\* that "found" and None (the empty tuple) are both tuples.
MapGet(m, key) == IF key \in DOMAIN m THEN <<m[key]>> ELSE None

(***************************************************************************)
(* metrics.py: calculate_quality_time_score                                *)
(***************************************************************************)
\* Mutant of QTSContribution: every contribution counts twice.
QTSContribution_Doubled(entry, priority_map, dflt) ==
    LET priority_config == MapGet(priority_map, entry.domain)
        priority == IF priority_config # None
                    THEN priority_config[1].priority ELSE dflt
        cap == IF priority_config # None
               THEN priority_config[1].max_daily_hours ELSE None
        effective_time == IF cap = None THEN entry.hours
                          ELSE RMin(entry.hours, cap)
    IN  RMul(Rat(2, 1), RMul(effective_time, priority))

\* Mutant of QTSContribution: the cap is ignored.
QTSContribution_NoCap(entry, priority_map, dflt) ==
    LET priority_config == MapGet(priority_map, entry.domain)
        priority == IF priority_config # None
                    THEN priority_config[1].priority ELSE dflt
    IN  RMul(entry.hours, priority)

\* Lines 84-98: the weighted contribution of one entry.
QTSContribution(entry, priority_map, dflt) ==
    LET priority_config == MapGet(priority_map, entry.domain)
        priority == IF priority_config # None
                    THEN priority_config[1].priority ELSE dflt
        cap == IF priority_config # None
               THEN priority_config[1].max_daily_hours ELSE None
        effective_time == IF cap = None THEN entry.hours
                          ELSE RMin(entry.hours, cap)
    IN  RMul(effective_time, priority)

\* Mutant of NegativeHours: no entry is rejected.
NegativeHours_Never(entry) == FALSE

\* Lines 80-82: the guard on one entry.
NegativeHours(entry) == RLt(entry.hours, Zero)

\* Mutant of QTSLoop: only the first entry is checked for negative hours.
RECURSIVE QTSLoop_FirstOnly(_, _, _, _, _)
QTSLoop_FirstOnly(entries, priority_map, dflt, i, qts) ==
    IF i > Len(entries) THEN Ok(qts)
    ELSE IF i = 1 /\ NegativeHours(entries[i]) THEN Raise("ValueError")
    ELSE QTSLoop_FirstOnly(entries, priority_map, dflt, i + 1,
             RAdd(qts, QTSContribution(entries[i], priority_map, dflt)))

\* Lines 77-100: the loop, from entry i with the running total qts.
RECURSIVE QTSLoop(_, _, _, _, _)
QTSLoop(entries, priority_map, dflt, i, qts) ==
    IF i > Len(entries) THEN Ok(qts)
    ELSE IF NegativeHours(entries[i]) THEN Raise("ValueError")
    ELSE QTSLoop(entries, priority_map, dflt, i + 1,
                 RAdd(qts, QTSContribution(entries[i], priority_map, dflt)))

\* Mutant of calculate_quality_time_score: the entries are first keyed by
\* domain ({e.domain: e for e in entries}), so only the last entry of a domain
\* is scored.
LastOfDomain(entries) ==
    LET keep == {i \in 1..Len(entries) :
                    \A j \in (i + 1)..Len(entries) :
                        entries[j].domain # entries[i].domain}
        RECURSIVE Pick(_)
        Pick(i) == IF i > Len(entries) THEN <<>>
                   ELSE IF i \in keep THEN <<entries[i]>> \o Pick(i + 1)
                   ELSE Pick(i + 1)
    IN  Pick(1)

calculate_quality_time_score_ByDomain(entries, prios, dflt) ==
    QTSLoop(LastOfDomain(entries), PriorityMap(prios), dflt, 1, Zero)

\* Mutant of calculate_quality_time_score: every entry is weighted by the
\* default priority (the lookup result is not used).
calculate_quality_time_score_NoLookup(entries, prios, dflt) ==
    QTSLoop(entries, PriorityMap(<<>>), dflt, 1, Zero)

calculate_quality_time_score(entries, prios, dflt) ==
    QTSLoop(entries, PriorityMap(prios), dflt, 1, Zero)

(***************************************************************************)
(* scoring.py: calculate_domain_contributions                              *)
(***************************************************************************)
\* Mutant of DomainContribution: the cap is not applied.
DomainContribution_Uncapped(entry, priority_map, dflt) ==
    LET priority_config == MapGet(priority_map, entry.domain)
        priority == IF priority_config # None
                    THEN priority_config[1].priority ELSE dflt
    IN  DomainMetrics(entry.domain, entry.hours, entry.hours, priority,
                      RMul(entry.hours, priority))

\* Mutant of DomainContribution: the cap is a floor (max for min).
DomainContribution_Max(entry, priority_map, dflt) ==
    LET priority_config == MapGet(priority_map, entry.domain)
        priority == IF priority_config # None
                    THEN priority_config[1].priority ELSE dflt
        cap == IF priority_config # None
               THEN priority_config[1].max_daily_hours ELSE None
        effective_time == IF cap = None THEN entry.hours
                          ELSE IF RLt(entry.hours, cap) THEN cap
                          ELSE entry.hours
        contribution == RMul(effective_time, priority)
    IN  DomainMetrics(entry.domain, entry.hours, effective_time, priority,
                      contribution)

\* Lines 72-92: the record of one entry (or the constructor's error).
DomainContribution(entry, priority_map, dflt) ==
    LET priority_config == MapGet(priority_map, entry.domain)
        priority == IF priority_config # None
                    THEN priority_config[1].priority ELSE dflt
        cap == IF priority_config # None
               THEN priority_config[1].max_daily_hours ELSE None
        effective_time == IF cap = None THEN entry.hours
                          ELSE RMin(entry.hours, cap)
        contribution == RMul(effective_time, priority)
    IN  DomainMetrics(entry.domain, entry.hours, effective_time, priority,
                      contribution)

\* Mutant of ContributionsLoop: each record is put at the front of the list.
RECURSIVE ContributionsLoop_Prepend(_, _, _, _, _)
ContributionsLoop_Prepend(entries, priority_map, dflt, i, domain_metrics) ==
    IF i > Len(entries) THEN Ok(domain_metrics)
    ELSE LET r == DomainContribution(entries[i], priority_map, dflt)
         IN  IF r.status = "error" THEN r
             ELSE ContributionsLoop_Prepend(entries, priority_map, dflt,
                      i + 1, <<r.value>> \o domain_metrics)

\* Lines 69-94: the loop, from entry i with the records appended so far.
RECURSIVE ContributionsLoop(_, _, _, _, _)
ContributionsLoop(entries, priority_map, dflt, i, domain_metrics) ==
    IF i > Len(entries) THEN Ok(domain_metrics)
    ELSE LET r == DomainContribution(entries[i], priority_map, dflt)
         IN  IF r.status = "error" THEN r
             ELSE ContributionsLoop(entries, priority_map, dflt, i + 1,
                                    Append(domain_metrics, r.value))

calculate_domain_contributions(entries, prios, dflt) ==
    ContributionsLoop(entries, PriorityMap(prios), dflt, 1, <<>>)

(***************************************************************************)
(* metrics.py: calculate_goal_alignment, calculate_distraction_ratio       *)
(***************************************************************************)
\* goal_domains: set(); for goal in goals: goal_domains.update(goal.domains)
RECURSIVE GoalDomains(_)
GoalDomains(gs) ==
    IF gs = <<>> THEN {}
    ELSE GoalDomains(SubSeq(gs, 1, Len(gs) - 1))
            \cup {gs[Len(gs)].domains[k] : k \in 1..Len(gs[Len(gs)].domains)}

\* sum(entry.hours for entry in entries), left to right from 0.
RECURSIVE SumHours(_)
SumHours(entries) ==
    IF entries = <<>> THEN Zero
    ELSE RAdd(SumHours(SubSeq(entries, 1, Len(entries) - 1)),
              entries[Len(entries)].hours)

\* The entries whose domain is in the set, in order.
RECURSIVE InDomains(_, _)
InDomains(entries, domains) ==
    IF entries = <<>> THEN <<>>
    ELSE IF entries[1].domain \in domains
         THEN <<entries[1]>> \o InDomains(Tail(entries), domains)
         ELSE InDomains(Tail(entries), domains)

\* The domains a sequence of entries mentions.
Domains_Of(entries) == {entries[i].domain : i \in 1..Len(entries)}

\* Mutant of calculate_goal_alignment: the total-time guard is missing, so
\* the division raises on a zero total.
calculate_goal_alignment_NoZeroGuard(entries, gs) ==
    IF entries = <<>> THEN Ok(Zero)
    ELSE LET total_time == SumHours(entries)
             goal_time == SumHours(InDomains(entries, GoalDomains(gs)))
         IN  IF total_time = Zero THEN Raise("ZeroDivisionError")
             ELSE Ok(RMul(RDiv(goal_time, total_time), Hundred))

\* Mutant of calculate_goal_alignment: each goal replaces the set instead of
\* adding to it, so only the last goal's domains count.
calculate_goal_alignment_LastGoal(entries, gs) ==
    IF entries = <<>> THEN Ok(Zero)
    ELSE LET goal_domains == IF gs = <<>> THEN {}
                             ELSE GoalDomains(<<gs[Len(gs)]>>)
             total_time == SumHours(entries)
             goal_time == SumHours(InDomains(entries, goal_domains))
         IN  IF total_time = Zero THEN Ok(Zero)
             ELSE Ok(RMul(RDiv(goal_time, total_time), Hundred))

calculate_goal_alignment(entries, gs) ==
    IF entries = <<>> THEN Ok(Zero)
    ELSE LET goal_domains == GoalDomains(gs)
             total_time == SumHours(entries)
             goal_time == SumHours(InDomains(entries, goal_domains))
         IN  IF total_time = Zero THEN Ok(Zero)
             ELSE Ok(RMul(RDiv(goal_time, total_time), Hundred))

\* Mutant of calculate_distraction_ratio: computed from the entries outside
\* the goal domains, with the same guards as the alignment.
calculate_distraction_ratio_FromEntries(entries, gs) ==
    IF entries = <<>> THEN Ok(Zero)
    ELSE LET total_time == SumHours(entries)
             other_time == SumHours(InDomains(entries,
                               Domains_Of(entries) \ GoalDomains(gs)))
         IN  IF total_time = Zero THEN Ok(Zero)
             ELSE Ok(RMul(RDiv(other_time, total_time), Hundred))

\* An error of the alignment call propagates.
calculate_distraction_ratio(entries, gs) ==
    LET goal_alignment == calculate_goal_alignment(entries, gs)
    IN  IF goal_alignment.status = "error" THEN goal_alignment
        ELSE Ok(RSub(Hundred, goal_alignment.value))

(***************************************************************************)
(* metrics.py: calculate_actionability_score and its ActionLog variant     *)
(***************************************************************************)
\* Mutant of calculate_actionability_score: no guard on consumed == 0 (the
\* division is by max(consumed, 1)).
calculate_actionability_score_NoGuard(consumed, bookmarked, shared, applied, w) ==
    LET ws == IF w = None THEN DefaultActionWeights ELSE w
        weighted_actions ==
            RAdd(RAdd(RMul(Rat(bookmarked, 1), ws.bookmarked),
                      RMul(Rat(shared, 1), ws.shared)),
                 RMul(Rat(applied, 1), ws.applied))
    IN  Ok(RDiv(weighted_actions,
                Rat(IF consumed = 0 THEN 1 ELSE consumed, 1)))

calculate_actionability_score(consumed, bookmarked, shared, applied, w) ==
    IF consumed = 0 THEN Ok(Zero)
    ELSE LET ws == IF w = None THEN DefaultActionWeights ELSE w
             weighted_actions ==
                 RAdd(RAdd(RMul(Rat(bookmarked, 1), ws.bookmarked),
                           RMul(Rat(shared, 1), ws.shared)),
                      RMul(Rat(applied, 1), ws.applied))
         IN  Ok(RDiv(weighted_actions, Rat(consumed, 1)))

calculate_actionability_score_from_log(action_log, w) ==
    calculate_actionability_score(action_log.consumed, action_log.bookmarked,
                                  action_log.shared, action_log.applied, w)

(***************************************************************************)
(* metrics.py: calculate_locality_score                                    *)
(***************************************************************************)
\* Mutant of InUnitInterval: the bounds are exclusive.
InUnitInterval_Open(x) == RLt(Zero, x) /\ RLt(x, Rat(1, 1))

\* 0.0 <= x <= 1.0
InUnitInterval(x) == RLe(Zero, x) /\ RLe(x, Rat(1, 1))

\* Lines 291-299.  The error carries the head of its message, which names
\* the argument.
calculate_locality_score(relevance, engage) ==
    IF ~InUnitInterval(relevance)
    THEN Raise("ValueError: local_relevance must be between 0.0 and 1.0")
    ELSE IF ~InUnitInterval(engage)
    THEN Raise("ValueError: engagement must be between 0.0 and 1.0")
    ELSE Ok(RMul(relevance, engage))

(***************************************************************************)
(* scoring.py: generate_recommendations                                    *)
(***************************************************************************)
\* Recommendation(type, domain, message, priority).  The message is kept as
\* its template and the values formatted into it.
Recommendation(type, domain, message, priority) ==
    [type |-> type, domain |-> domain, message |-> message,
     priority |-> priority]

\* format(x, ".<digits>f"): x rounded to that many decimals, ties to even
\* (decided on the exact rational).
Pow10(digits) == 10 ^ digits
RoundHalfEven(x) ==
    LET q == x[1] \div x[2]
        r == x[1] % x[2]
    IN  IF 2 * r < x[2] THEN q
        ELSE IF 2 * r > x[2] THEN q + 1
        ELSE IF q % 2 = 0 THEN q ELSE q + 1
Format(x, digits) ==
    Rat(RoundHalfEven(RMul(x, Rat(Pow10(digits), 1))), Pow10(digits))

\* time_by_domain = {e.domain: e.hours for e in time_entries}: the hours of
\* the last entry of each domain.
RECURSIVE TimeByDomain(_)
TimeByDomain(entries) ==
    IF entries = <<>> THEN [d \in {} |-> Zero]
    ELSE LET e == entries[Len(entries)]
             m == TimeByDomain(SubSeq(entries, 1, Len(entries) - 1))
         IN  [d \in DOMAIN m \cup {e.domain} |->
                 IF d = e.domain THEN e.hours ELSE m[d]]

\* Mutant of LowAlignment: the threshold is 60.
LowAlignment_Below60(goal_domains, goal_alignment, first) ==
    IF RLt(goal_alignment, Rat(60, 1)) /\ goal_domains # {}
    THEN <<Recommendation("increase", first,
                          <<"Goal alignment is only",
                            Format(goal_alignment, 0)>>, "high")>>
    ELSE <<>>

\* Mutant of LowAlignment: the threshold of 30 is inclusive.
LowAlignment_Inclusive(goal_domains, goal_alignment, first) ==
    IF RLe(goal_alignment, Rat(30, 1)) /\ goal_domains # {}
    THEN <<Recommendation("increase", first,
                          <<"Goal alignment is only",
                            Format(goal_alignment, 0)>>, "high")>>
    ELSE <<>>

\* Rule 1 (lines 134-143).  first is the element iter(goal_domains) yields
\* first; the order of a set of strings is not fixed by the program.
LowAlignment(goal_domains, goal_alignment, first) ==
    IF RLt(goal_alignment, Rat(30, 1)) /\ goal_domains # {}
    THEN <<Recommendation("increase", first,
                          <<"Goal alignment is only",
                            Format(goal_alignment, 0)>>, "high")>>
    ELSE <<>>

\* Mutant of CapExceeded: hours equal to the cap count as over it.
RECURSIVE CapExceeded_Inclusive(_, _)
CapExceeded_Inclusive(entries, priority_map) ==
    IF entries = <<>> THEN <<>>
    ELSE LET entry == entries[1]
             priority_config == MapGet(priority_map, entry.domain)
             cap == IF priority_config # None
                    THEN priority_config[1].max_daily_hours ELSE None
         IN  (IF /\ priority_config # None
                 /\ cap # None /\ cap # Zero
                 /\ RLe(cap, entry.hours)
              THEN <<Recommendation("decrease", entry.domain,
                                    <<"over your cap",
                                      Format(RSub(entry.hours, cap), 1),
                                      entry.domain>>, "medium")>>
              ELSE <<>>)
             \o CapExceeded_Inclusive(Tail(entries), priority_map)

\* Rule 2 (lines 146-161).
RECURSIVE CapExceeded(_, _)
CapExceeded(entries, priority_map) ==
    IF entries = <<>> THEN <<>>
    ELSE LET entry == entries[1]
             priority_config == MapGet(priority_map, entry.domain)
             cap == IF priority_config # None
                    THEN priority_config[1].max_daily_hours ELSE None
         IN  (IF /\ priority_config # None
                 /\ cap # None /\ cap # Zero
                 /\ RLt(cap, entry.hours)
              THEN <<Recommendation("decrease", entry.domain,
                                    <<"over your cap",
                                      Format(RSub(entry.hours, cap), 1),
                                      entry.domain>>, "medium")>>
              ELSE <<>>)
             \o CapExceeded(Tail(entries), priority_map)

\* Mutant of LowPriorityHighTime: an unmatched entry resolves to priority 0.
RECURSIVE LowPriorityHighTime_ZeroDefault(_, _)
LowPriorityHighTime_ZeroDefault(entries, priority_map) ==
    IF entries = <<>> THEN <<>>
    ELSE LET entry == entries[1]
             priority_config == MapGet(priority_map, entry.domain)
             priority == IF priority_config # None
                         THEN priority_config[1].priority ELSE Zero
         IN  (IF RLt(priority, Rat(3, 10)) /\ RLt(Rat(2, 1), entry.hours)
              THEN <<Recommendation("decrease", entry.domain,
                                    <<"low-priority domain",
                                      Format(entry.hours, 1),
                                      entry.domain>>, "medium")>>
              ELSE <<>>)
             \o LowPriorityHighTime_ZeroDefault(Tail(entries), priority_map)

\* Rule 3 (lines 164-176).
RECURSIVE LowPriorityHighTime(_, _)
LowPriorityHighTime(entries, priority_map) ==
    IF entries = <<>> THEN <<>>
    ELSE LET entry == entries[1]
             priority_config == MapGet(priority_map, entry.domain)
             priority == IF priority_config # None
                         THEN priority_config[1].priority ELSE Rat(1, 2)
         IN  (IF RLt(priority, Rat(3, 10)) /\ RLt(Rat(2, 1), entry.hours)
              THEN <<Recommendation("decrease", entry.domain,
                                    <<"low-priority domain",
                                      Format(entry.hours, 1),
                                      entry.domain>>, "medium")>>
              ELSE <<>>)
             \o LowPriorityHighTime(Tail(entries), priority_map)

\* sum(time_by_domain.get(d, 0.0) for d in goal.domains)
RECURSIVE GoalTime(_, _)
GoalTime(domains, time_by_domain) ==
    IF domains = <<>> THEN Zero
    ELSE RAdd(GoalTime(SubSeq(domains, 1, Len(domains) - 1), time_by_domain),
              IF domains[Len(domains)] \in DOMAIN time_by_domain
              THEN time_by_domain[domains[Len(domains)]] ELSE Zero)

\* Rule 4 (lines 179-190).
RECURSIVE UnderTarget(_, _)
UnderTarget(gs, time_by_domain) ==
    IF gs = <<>> THEN <<>>
    ELSE LET goal == gs[1]
             target == goal.target_hours_per_week
             goal_time == GoalTime(goal.domains, time_by_domain)
         IN  (IF /\ target # None /\ target # Zero
                 /\ RLt(goal_time, RMul(target, Rat(1, 2)))
              THEN <<Recommendation("increase",
                                    IF goal.domains # <<>>
                                    THEN goal.domains[1]
                                    ELSE "goal_activities",
                                    <<"behind target", goal.name,
                                      Format(goal_time, 1),
                                      Format(target, 0)>>, "high")>>
              ELSE <<>>)
             \o UnderTarget(Tail(gs), time_by_domain)

\* Mutant of Maintain: the threshold of 50 is exclusive.
Maintain_Exclusive(goal_alignment) ==
    IF RLt(Rat(50, 1), goal_alignment)
    THEN <<Recommendation("maintain", "overall",
                          <<"Great job! Goal alignment is",
                            Format(goal_alignment, 0)>>, "low")>>
    ELSE <<>>

\* Rule 5 (lines 193-201).
Maintain(goal_alignment) ==
    IF RLe(Rat(50, 1), goal_alignment)
    THEN <<Recommendation("maintain", "overall",
                          <<"Great job! Goal alignment is",
                            Format(goal_alignment, 0)>>, "low")>>
    ELSE <<>>

\* Mutant of generate_recommendations: the low-priority rule runs before
\* the cap rule.
generate_recommendations_Swapped(entries, prios, gs, goal_alignment, first) ==
    LET priority_map == PriorityMap(prios)
        goal_domains == GoalDomains(gs)
        time_by_domain == TimeByDomain(entries)
    IN  Ok(LowAlignment(goal_domains, goal_alignment, first)
           \o LowPriorityHighTime(entries, priority_map)
           \o CapExceeded(entries, priority_map)
           \o UnderTarget(gs, time_by_domain)
           \o Maintain(goal_alignment))

generate_recommendations(entries, prios, gs, goal_alignment, first) ==
    LET priority_map == PriorityMap(prios)
        goal_domains == GoalDomains(gs)
        time_by_domain == TimeByDomain(entries)
    IN  Ok(LowAlignment(goal_domains, goal_alignment, first)
           \o CapExceeded(entries, priority_map)
           \o LowPriorityHighTime(entries, priority_map)
           \o UnderTarget(gs, time_by_domain)
           \o Maintain(goal_alignment))

\* What next(iter(goal_domains)) can yield; it is only evaluated when the
\* set is not empty.
FirstIterated(gs) == IF GoalDomains(gs) = {} THEN {"-"} ELSE GoalDomains(gs)

(***************************************************************************)
(* scoring.py: generate_metrics_report                                     *)
(***************************************************************************)
\* The default of the default_priority parameter (0.5).
DefaultPriority == Rat(1, 2)

\* Mutant of MetricsReport: a report without tracked time is rejected.
MetricsReport_PositiveTime(p, quality_time_score, raw_time_hours, goal_alignment_percent, distraction_percent, actionability_score, by_domain, recommendations) ==
    IF /\ p \in {"daily", "weekly"}
       /\ RLe(Zero, quality_time_score)
       /\ RLt(Zero, raw_time_hours)
       /\ RLe(Zero, goal_alignment_percent)
       /\ RLe(goal_alignment_percent, Hundred)
       /\ RLe(Zero, distraction_percent)
       /\ RLe(distraction_percent, Hundred)
       /\ RLe(Zero, actionability_score)
    THEN Ok([period |-> p,
             quality_time_score |-> quality_time_score,
             raw_time_hours |-> raw_time_hours,
             goal_alignment_percent |-> goal_alignment_percent,
             distraction_percent |-> distraction_percent,
             actionability_score |-> actionability_score,
             by_domain |-> by_domain,
             recommendations |-> recommendations])
    ELSE Raise("ValidationError")

\* MetricsReport(...): the constructor validates quality_time_score >= 0,
\* raw_time_hours >= 0, both percentages within [0, 100] and
\* actionability_score >= 0.
MetricsReport(p, quality_time_score, raw_time_hours, goal_alignment_percent, distraction_percent, actionability_score, by_domain, recommendations) ==
    IF /\ p \in {"daily", "weekly"}
       /\ RLe(Zero, quality_time_score)
       /\ RLe(Zero, raw_time_hours)
       /\ RLe(Zero, goal_alignment_percent)
       /\ RLe(goal_alignment_percent, Hundred)
       /\ RLe(Zero, distraction_percent)
       /\ RLe(distraction_percent, Hundred)
       /\ RLe(Zero, actionability_score)
    THEN Ok([period |-> p,
             quality_time_score |-> quality_time_score,
             raw_time_hours |-> raw_time_hours,
             goal_alignment_percent |-> goal_alignment_percent,
             distraction_percent |-> distraction_percent,
             actionability_score |-> actionability_score,
             by_domain |-> by_domain,
             recommendations |-> recommendations])
    ELSE Raise("ValidationError")

\* The period parameter when the caller leaves it out, and its default
\* (line 211).
Omitted == "<omitted>"

\* Mutant of PeriodGiven: the default label is weekly.
PeriodGiven_Weekly(p) == IF p = Omitted THEN "weekly" ELSE p

PeriodGiven(p) == IF p = Omitted THEN "daily" ELSE p

\* Mutant of Actionability: a call without a log fails.
Actionability_Required(log) ==
    IF log = None THEN Raise("TypeError")
    ELSE calculate_actionability_score_from_log(log, None)

\* Lines 245-247: 0.0 unless a log is given, then its score under the
\* default weights.
Actionability(log) ==
    IF log = None THEN Ok(Zero)
    ELSE calculate_actionability_score_from_log(log, None)

\* Mutant of RawTime: only the first entry is counted.
RawTime_First(entries) == IF entries = <<>> THEN Zero ELSE entries[1].hours

\* Line 258: sum(entry.hours for entry in time_entries).
RawTime(entries) == SumHours(entries)

\* Lines 239-269, in build order; the first error met is what the call
\* raises.
generate_metrics_report(entries, prios, gs, log, p, first) ==
    LET qts == calculate_quality_time_score(entries, prios, DefaultPriority)
        goal_alignment == calculate_goal_alignment(entries, gs)
        distraction == calculate_distraction_ratio(entries, gs)
        actionability == Actionability(log)
        domain_metrics ==
            calculate_domain_contributions(entries, prios, DefaultPriority)
        recommendations ==
            generate_recommendations(entries, prios, gs,
                                     goal_alignment.value, first)
        raw_time == RawTime(entries)
    IN  IF qts.status = "error" THEN qts
        ELSE IF goal_alignment.status = "error" THEN goal_alignment
        ELSE IF distraction.status = "error" THEN distraction
        ELSE IF actionability.status = "error" THEN actionability
        ELSE IF domain_metrics.status = "error" THEN domain_metrics
        ELSE IF recommendations.status = "error" THEN recommendations
        ELSE MetricsReport(p, qts.value, raw_time, goal_alignment.value,
                           distraction.value, actionability.value,
                           domain_metrics.value, recommendations.value)

\* One invocation of a calculator: the function entered and the function
\* whose body made the call.
Invoke(fn, by) == [fn |-> fn, by |-> by]

\* Mutant of calculate_distraction_ratio_Calls: the ratio is computed
\* without entering another calculator.
calculate_distraction_ratio_Calls_None == <<>>

\* The calculators a calculate_distraction_ratio call enters (metrics.py
\* line 181).
calculate_distraction_ratio_Calls ==
    <<Invoke("calculate_goal_alignment", "calculate_distraction_ratio")>>

\* The calculators a calculate_actionability_score_from_log call enters
\* (metrics.py line 256).
calculate_actionability_score_from_log_Calls ==
    <<Invoke("calculate_actionability_score",
             "calculate_actionability_score_from_log")>>

\* The calculators one generate_metrics_report call enters, in order, each
\* followed by those it enters itself; an error ends the list.
generate_metrics_report_Calls(entries, prios, gs, log, first) ==
    LET by == "generate_metrics_report"
        qts == calculate_quality_time_score(entries, prios, DefaultPriority)
        goal_alignment == calculate_goal_alignment(entries, gs)
        distraction == calculate_distraction_ratio(entries, gs)
        actionability == Actionability(log)
        domain_metrics ==
            calculate_domain_contributions(entries, prios, DefaultPriority)
        c1 == <<Invoke("calculate_quality_time_score", by)>>
        c2 == c1 \o <<Invoke("calculate_goal_alignment", by)>>
        c3 == c2 \o <<Invoke("calculate_distraction_ratio", by)>>
                 \o calculate_distraction_ratio_Calls
        c4 == IF log = None THEN c3
              ELSE c3 \o <<Invoke("calculate_actionability_score_from_log",
                                   by)>>
                      \o calculate_actionability_score_from_log_Calls
        c5 == c4 \o <<Invoke("calculate_domain_contributions", by)>>
        c6 == c5 \o <<Invoke("generate_recommendations", by)>>
    IN  IF qts.status = "error" THEN c1
        ELSE IF goal_alignment.status = "error" THEN c2
        ELSE IF distraction.status = "error" THEN c3
        ELSE IF actionability.status = "error" THEN c4
        ELSE IF domain_metrics.status = "error" THEN c5
        ELSE c6

(***************************************************************************)
(* metrics.py: soft_min.  Its result is decided by rounding, so here every *)
(* arithmetic operation is rounded as a binary float rounds it: to the     *)
(* nearest value with SignificandBits significant bits, ties to even.      *)
(* binary64 carries 53 bits; the model carries 8, which keep the           *)
(* significands within TLC's integers.  Exponents are unbounded.           *)
(***************************************************************************)
SignificandBits == 8

Pow2(e) == IF e >= 0 THEN Rat(2 ^ e, 1) ELSE Rat(1, 2 ^ (-e))
RAbs(x) == <<Abs(x[1]), x[2]>>
RNeg(x) == <<-x[1], x[2]>>

\* The exponent e of x > 0: 2^(bits-1) <= x / 2^e < 2^bits, searched from e.
RECURSIVE Exponent(_, _)
Exponent(x, e) ==
    IF RLe(Pow2(SignificandBits), RDiv(x, Pow2(e))) THEN Exponent(x, e + 1)
    ELSE IF RLt(RDiv(x, Pow2(e)), Pow2(SignificandBits - 1))
    THEN Exponent(x, e - 1)
    ELSE e

\* x rounded to the nearest float, ties to even.
Float(x) ==
    IF x = Zero THEN Zero
    ELSE LET e == Exponent(RAbs(x), 0)
             m == RoundHalfEven(RDiv(RAbs(x), Pow2(e)))
         IN  RMul(Rat(IF x[1] < 0 THEN -m ELSE m, 1), Pow2(e))

FAdd(x, y) == Float(RAdd(x, y))
FSub(x, y) == Float(RSub(x, y))
FMul(x, y) == Float(RMul(x, y))
FDiv(x, y) == Float(RDiv(x, y))
\* Python's max(a, b): b when b > a, else a.
RMax(x, y) == IF RLt(x, y) THEN y ELSE x

\* math.exp and math.log, correctly rounded, on the arguments soft_min
\* passes them for SoftMinValues and AlphaValues: <<argument, value>>.
\* exp(0) = 1 and log(1) = 0 are exact.
ExpTable ==
    {<<Rat(-6, 1), Rat(81, 32768)>>,
     <<Rat(-5, 1), Rat(221, 32768)>>,
     <<Rat(-4, 1), Rat(75, 4096)>>,
     <<Rat(-7, 2), Rat(247, 8192)>>,
     <<Rat(-3, 1), Rat(51, 1024)>>,
     <<Rat(-5, 2), Rat(21, 256)>>,
     <<Rat(-2, 1), Rat(139, 1024)>>,
     <<Rat(-1, 1), Rat(47, 128)>>,
     <<Rat(-77, 128), Rat(35, 64)>>,
     <<Rat(-1, 2), Rat(155, 256)>>,
     <<Rat(-51, 128), Rat(43, 64)>>,
     <<Rat(-45, 128), Rat(45, 64)>>,
     <<Rat(-19, 64), Rat(95, 128)>>,
     <<Rat(-1, 4), Rat(199, 256)>>,
     <<Rat(-13, 64), Rat(209, 256)>>,
     <<Rat(-13, 128), Rat(231, 256)>>,
     <<Rat(-3, 64), Rat(61, 64)>>}

LogTable ==
    {<<Rat(129, 128), Rat(255, 32768)>>,
     <<Rat(65, 64), Rat(127, 8192)>>,
     <<Rat(33, 32), Rat(63, 2048)>>,
     <<Rat(67, 64), Rat(47, 1024)>>,
     <<Rat(69, 64), Rat(77, 1024)>>,
     <<Rat(145, 128), Rat(255, 2048)>>,
     <<Rat(175, 128), Rat(5, 16)>>,
     <<Rat(99, 64), Rat(223, 512)>>,
     <<Rat(103, 64), Rat(61, 128)>>,
     <<Rat(107, 64), Rat(33, 64)>>,
     <<Rat(109, 64), Rat(17, 32)>>,
     <<Rat(223, 128), Rat(71, 128)>>,
     <<Rat(57, 32), Rat(37, 64)>>,
     <<Rat(29, 16), Rat(19, 32)>>,
     <<Rat(61, 32), Rat(165, 256)>>,
     <<Rat(125, 64), Rat(171, 256)>>,
     <<Rat(2, 1), Rat(177, 256)>>}

Exp(x) == IF x = Zero THEN Rat(1, 1) ELSE (CHOOSE p \in ExpTable : p[1] = x)[2]
Log(x) == IF x = Rat(1, 1) THEN Zero ELSE (CHOOSE p \in LogTable : p[1] = x)[2]

\* Mutant of soft_min: -alpha * a takes the place of max_val in the sum.
soft_min_Unshifted(a, b, alpha) ==
    IF alpha = Zero THEN Raise("ZeroDivisionError")
    ELSE LET x_a == FMul(RNeg(alpha), a)
             x_b == FMul(RNeg(alpha), b)
             max_val == RMax(x_a, x_b)
             sum == FAdd(Exp(FSub(x_a, max_val)), Exp(FSub(x_b, max_val)))
         IN  Ok(FMul(FDiv(Rat(-1, 1), alpha), FAdd(x_a, Log(sum))))

\* Lines 324-333.  -1 / alpha is evaluated first and raises for alpha = 0.
soft_min(a, b, alpha) ==
    IF alpha = Zero THEN Raise("ZeroDivisionError")
    ELSE LET x_a == FMul(RNeg(alpha), a)
             x_b == FMul(RNeg(alpha), b)
             max_val == RMax(x_a, x_b)
             sum == FAdd(Exp(FSub(x_a, max_val)), Exp(FSub(x_b, max_val)))
         IN  Ok(FMul(FDiv(Rat(-1, 1), alpha), FAdd(max_val, Log(sum))))

(***************************************************************************)
(* The values the callers' records are drawn from.                         *)
(***************************************************************************)
SeqsUpTo(S, n) == UNION {[1..k -> S] : k \in 0..n}

Domains == {"learning", "social_media"}
HoursValues == {Rat(-1, 1), Rat(1, 1), Rat(5, 2)}
\* <<priority, max_daily_hours>>
PriorityConfigs ==
    {<<Rat(1, 1), None>>, <<Rat(1, 1), Rat(2, 1)>>, <<Rat(1, 5), Rat(2, 1)>>}
DefaultPriorityValues == {Rat(1, 2), Rat(3, 2)}

TimeEntries == {TimeEntry(d, h) : d \in Domains, h \in HoursValues}
\* Validated entries (hours >= 0), with zero hours among them.
TrackedHours == {Rat(0, 1), Rat(1, 1), Rat(5, 2)}
TrackedEntries == {TimeEntry(d, h) : d \in Domains, h \in TrackedHours}
DomainPriorities ==
    {DomainPriority(d, c[1], c[2]) : d \in Domains, c \in PriorityConfigs}

\* Goals: one domain; no domain, with a weekly target; two domains, the first
\* listed twice.
Goals ==
    {Goal("learn", <<"learning">>, None),
     Goal("idle", <<>>, Rat(7, 1)),
     Goal("all", <<"learning", "social_media", "learning">>, None)}

\* The priorities of the report calls: one capped record per domain.
ReportPriorities ==
    <<DomainPriority("learning", Rat(1, 1), Rat(2, 1)),
      DomainPriority("social_media", Rat(1, 5), Rat(2, 1))>>

ActionLogs ==
    {ActionLog(c, b, sh, a) : c \in 0..MaxCount, b \in 0..MaxCount,
                              sh \in 0..MaxCount, a \in 0..MaxCount}
WeightsValues == {None, ActionWeights(Rat(1, 2), Rat(1, 2), Rat(2, 1))}

\* The records of the generate_recommendations calls: hours below, at and
\* above the cap of 2 (which is also the threshold of rule 3); priorities
\* below, at and above 0.3; goals with and without a weekly target.
RecHours == {Rat(1, 1), Rat(2, 1), Rat(5, 2)}
RecEntries == {TimeEntry(d, h) : d \in Domains, h \in RecHours}
RecPriorityConfigs ==
    {<<Rat(1, 5), Rat(2, 1)>>, <<Rat(3, 10), None>>, <<Rat(1, 1), Rat(2, 1)>>}
RecPriorities ==
    {DomainPriority(d, c[1], c[2]) : d \in Domains, c \in RecPriorityConfigs}
RecGoals ==
    {Goal("learn", <<"learning">>, Rat(4, 1)),
     Goal("idle", <<>>, Rat(7, 1)),
     Goal("all", <<"learning", "social_media", "learning">>, Rat(6, 1)),
     Goal("free", <<"social_media">>, None)}
AlignmentValues == {Rat(29, 1), Rat(30, 1), Rat(99, 2), Rat(50, 1)}

\* The argument held fixed while two others vary.
FixedEntries ==
    <<TimeEntry("learning", Rat(1, 1)), TimeEntry("social_media", Rat(5, 2))>>
FixedGoals == <<Goal("learn", <<"learning">>, Rat(4, 1))>>
FixedAlignment == Rat(40, 1)

\* The arguments of the generate_metrics_report calls: goals, the optional
\* log (None when left out) and the period label.
ReportGoals ==
    {<<>>,
     <<Goal("learn", <<"learning">>, None)>>,
     <<Goal("all", <<"learning", "social_media", "learning">>, None),
       Goal("idle", <<>>, Rat(7, 1))>>}
ReportLogs == {None, ActionLog(2, 1, 0, 1), ActionLog(0, 1, 1, 1)}
PeriodValues == {"daily", "weekly", Omitted}

\* Priorities built without validation: a priority above 1.
UnvalidatedPriorities == <<DomainPriority("learning", Rat(3, 2), None)>>

\* The arguments of soft_min: floats of SignificandBits bits (115/128 is
\* 0.9 rounded, 83/64 is 1.3 rounded); alpha is 10.0 by default.
SoftMinValues == {Rat(115, 128), Rat(1, 1), Rat(5, 4), Rat(83, 64), Rat(3, 2)}
AlphaValues == {Rat(10, 1), Rat(1, 1), Rat(-1, 1), Zero}
SoftMinArgs(a, b, alpha) == [a |-> a, b |-> b, alpha |-> alpha]
NoSoftMinArgs == SoftMinArgs(Zero, Zero, Rat(10, 1))

\* Relevance and engagement values: a grid from below 0 to above 1.
LocalityValues == {Rat(k, LocalitySteps) : k \in -2..(LocalitySteps + 2)}

(***************************************************************************)
(* The calls.                                                              *)
(***************************************************************************)
CallQualityTimeScore ==
    /\ op' = "calculate_quality_time_score"
    /\ result' = calculate_quality_time_score(time_entries, priorities,
                                               default_priority)
    /\ calls' = <<>>
    /\ UNCHANGED inputs

CallDomainContributions ==
    /\ op' = "calculate_domain_contributions"
    /\ result' = calculate_domain_contributions(time_entries, priorities,
                                                 default_priority)
    /\ calls' = <<>>
    /\ UNCHANGED inputs

CallGoalAlignment ==
    /\ op' = "calculate_goal_alignment"
    /\ result' = calculate_goal_alignment(time_entries, goals)
    /\ calls' = <<>>
    /\ UNCHANGED inputs

CallDistractionRatio ==
    /\ op' = "calculate_distraction_ratio"
    /\ result' = calculate_distraction_ratio(time_entries, goals)
    /\ calls' = calculate_distraction_ratio_Calls
    /\ UNCHANGED inputs

\* The caller passes the counts it holds in its log.
CallActionabilityScore ==
    /\ actions # None
    /\ op' = "calculate_actionability_score"
    /\ result' = calculate_actionability_score(
                      actions.consumed, actions.bookmarked, actions.shared,
                      actions.applied, weights)
    /\ calls' = <<>>
    /\ UNCHANGED inputs

CallActionabilityScoreFromLog ==
    /\ actions # None
    /\ op' = "calculate_actionability_score_from_log"
    /\ result' = calculate_actionability_score_from_log(actions, weights)
    /\ calls' = calculate_actionability_score_from_log_Calls
    /\ UNCHANGED inputs

CallGenerateMetricsReport ==
    \E first \in FirstIterated(goals) :
        /\ op' = "generate_metrics_report"
        /\ result' = generate_metrics_report(time_entries, priorities, goals,
                                              actions, PeriodGiven(period),
                                              first)
        /\ calls' = generate_metrics_report_Calls(time_entries, priorities,
                                                   goals, actions, first)
        /\ UNCHANGED inputs

CallGenerateRecommendations ==
    \E first \in FirstIterated(goals) :
        /\ op' = "generate_recommendations"
        /\ result' = generate_recommendations(time_entries, priorities, goals,
                                               given_alignment, first)
        /\ calls' = <<>>
        /\ UNCHANGED inputs

CallSoftMin ==
    /\ op' = "soft_min"
    /\ result' = soft_min(soft_min_args.a, soft_min_args.b,
                           soft_min_args.alpha)
    /\ calls' = <<>>
    /\ UNCHANGED inputs

CallLocalityScore ==
    /\ op' = "calculate_locality_score"
    /\ result' = calculate_locality_score(local_relevance, engagement)
    /\ calls' = <<>>
    /\ UNCHANGED inputs

(***************************************************************************)
(* SpecScore: the quality time score and its per-domain breakdown.         *)
(***************************************************************************)
InitScore ==
    /\ time_entries \in SeqsUpTo(TimeEntries, MaxEntries)
    /\ priorities \in SeqsUpTo(DomainPriorities, MaxPriorities)
    /\ default_priority \in DefaultPriorityValues
    /\ goals = <<>>
    /\ actions = None
    /\ weights = None
    /\ period = "daily"
    /\ given_alignment = Zero
    /\ local_relevance = Zero
    /\ engagement = Zero
    /\ soft_min_args = NoSoftMinArgs
    /\ op = "none"
    /\ result = NoResult
    /\ calls = <<>>

NextScore == CallQualityTimeScore \/ CallDomainContributions

SpecScore == InitScore /\ [][NextScore]_vars

(***************************************************************************)
(* SpecGoal: goal alignment, distraction ratio and the report over them.   *)
(***************************************************************************)
InitGoal ==
    /\ time_entries \in SeqsUpTo(TrackedEntries, MaxEntries)
    /\ priorities = ReportPriorities
    /\ default_priority = DefaultPriority
    /\ goals \in SeqsUpTo(Goals, MaxGoals)
    /\ actions = ActionLog(2, 1, 0, 1)
    /\ weights = None
    /\ period = "daily"
    /\ given_alignment = Zero
    /\ local_relevance = Zero
    /\ engagement = Zero
    /\ soft_min_args = NoSoftMinArgs
    /\ op = "none"
    /\ result = NoResult
    /\ calls = <<>>

NextGoal ==
    \/ CallGoalAlignment
    \/ CallDistractionRatio
    \/ CallGenerateMetricsReport

SpecGoal == InitGoal /\ [][NextGoal]_vars

(***************************************************************************)
(* SpecAction: the actionability score.                                    *)
(***************************************************************************)
InitAction ==
    /\ time_entries = <<>>
    /\ priorities = <<>>
    /\ default_priority = DefaultPriority
    /\ goals = <<>>
    /\ actions \in ActionLogs
    /\ weights \in WeightsValues
    /\ period = "daily"
    /\ given_alignment = Zero
    /\ local_relevance = Zero
    /\ engagement = Zero
    /\ soft_min_args = NoSoftMinArgs
    /\ op = "none"
    /\ result = NoResult
    /\ calls = <<>>

NextAction == CallActionabilityScore \/ CallActionabilityScoreFromLog

SpecAction == InitAction /\ [][NextAction]_vars

(***************************************************************************)
(* Properties of the quality time score and the breakdown (SpecScore).     *)
(***************************************************************************)
IsQTS == op = "calculate_quality_time_score"
IsContributions == op = "calculate_domain_contributions"
Returned == result.status = "ok"

\* sum(r.contribution for r in records), left to right from 0.
RECURSIVE SumContribution(_)
SumContribution(records) ==
    IF records = <<>> THEN Zero
    ELSE RAdd(SumContribution(SubSeq(records, 1, Len(records) - 1)),
              records[Len(records)].contribution)

\* The priority record an entry's domain resolves to, stated on the
\* sequence: the last record of that domain, None when there is none.
Matching(prios, domain) ==
    LET I == {i \in 1..Len(prios) : prios[i].domain = domain}
    IN  IF I = {} THEN None
        ELSE <<prios[CHOOSE i \in I : \A j \in I : j <= i]>>

CapOf(prios, domain) ==
    LET m == Matching(prios, domain)
    IN  IF m = None THEN None ELSE m[1].max_daily_hours

PriorityOf(prios, domain, dflt) ==
    LET m == Matching(prios, domain)
    IN  IF m = None THEN dflt ELSE m[1].priority

\* min(hours, cap), cap unbounded when None.
Capped(hours, cap) ==
    IF cap = None \/ RLe(hours, cap) THEN hours ELSE cap

\* Sum over the entries of min(hours, cap) x priority.
RECURSIVE WeightedSum(_, _, _)
WeightedSum(entries, prios, dflt) ==
    IF entries = <<>> THEN Zero
    ELSE RAdd(RMul(Capped(entries[1].hours, CapOf(prios, entries[1].domain)),
                   PriorityOf(prios, entries[1].domain, dflt)),
              WeightedSum(Tail(entries), prios, dflt))

NonNegative(entries) ==
    \A i \in 1..Len(entries) : RLe(Zero, entries[i].hours)

\* C1: whenever calculate_domain_contributions returns its records, the sum
\* of their contribution fields equals what calculate_quality_time_score
\* returns for the same entries, priorities and default_priority (and the
\* score is returned); and a returned score equals the sum of the
\* contributions whenever the breakdown is returned.
C1_ContributionsSumToQTS ==
    /\ (IsContributions /\ Returned) =>
          calculate_quality_time_score(time_entries, priorities,
                                       default_priority)
            = Ok(SumContribution(result.value))
    /\ (IsQTS /\ Returned) =>
          LET c == calculate_domain_contributions(time_entries, priorities,
                                                  default_priority)
          IN  c.status = "ok" => SumContribution(c.value) = result.value

\* Witness of C1: a breakdown of two entries was returned, one of them cut
\* by its cap, with a non-zero total.
C1_Witness ==
    /\ IsContributions /\ Returned
    /\ Len(result.value) = 2
    /\ \E i \in 1..2 :
          RLt(result.value[i].effective_time, result.value[i].time_spent)
    /\ RLt(Zero, SumContribution(result.value))

\* C2: for non-negative entries calculate_quality_time_score returns the sum
\* over the entries of min(hours, cap) x priority, with the cap and priority
\* of the record matching the entry's domain (no cap when the record has
\* none or no record matches, default_priority when no record matches), and
\* 0.0 for no entries.
C2_QTSIsCappedWeightedSum ==
    (IsQTS /\ NonNegative(time_entries)) =>
        /\ result = Ok(WeightedSum(time_entries, priorities,
                                   default_priority))
        /\ time_entries = <<>> => result = Ok(Zero)

\* Witness of C2: a score over one entry cut by its cap and one entry without
\* a priority record.
C2_Witness ==
    /\ IsQTS /\ Returned /\ Len(time_entries) = 2
    /\ \E i \in 1..2 :
          /\ CapOf(priorities, time_entries[i].domain) # None
          /\ RLt(CapOf(priorities, time_entries[i].domain),
                 time_entries[i].hours)
    /\ \E i \in 1..2 :
          /\ Matching(priorities, time_entries[i].domain) = None
          /\ RLt(Zero, time_entries[i].hours)

\* C6: every returned DomainMetrics record has effective_time <= time_spent;
\* effective_time = time_spent when the entry's domain has no cap or
\* time_spent <= cap, effective_time = cap otherwise; and
\* contribution = effective_time x priority.
C6_CapMonotonicity ==
    (IsContributions /\ Returned) =>
        \A i \in 1..Len(result.value) :
            LET r == result.value[i]
                cap == CapOf(priorities, time_entries[i].domain)
            IN  /\ RLe(r.effective_time, r.time_spent)
                /\ (cap = None \/ RLe(r.time_spent, cap))
                      => r.effective_time = r.time_spent
                /\ (cap # None /\ RLt(cap, r.time_spent))
                      => r.effective_time = cap
                /\ r.contribution = RMul(r.effective_time, r.priority)

\* Witness of C6: a returned breakdown with a record within its cap and a
\* record above its cap.
C6_Witness ==
    /\ IsContributions /\ Returned
    /\ \E i \in 1..Len(result.value) :
          /\ CapOf(priorities, time_entries[i].domain) # None
          /\ RLe(result.value[i].time_spent,
                 CapOf(priorities, time_entries[i].domain))
          /\ RLt(Zero, result.value[i].time_spent)
    /\ \E i \in 1..Len(result.value) :
          /\ CapOf(priorities, time_entries[i].domain) # None
          /\ RLt(CapOf(priorities, time_entries[i].domain),
                 result.value[i].time_spent)

\* C7: calculate_domain_contributions returns one record per entry, in input
\* order: the i-th record has the i-th entry's domain and its hours as
\* time_spent; entries of the same domain are not merged.  It returns for
\* every input of non-negative hours and a default_priority within [0, 1].
C7_OneRecordPerEntry ==
    IsContributions =>
        /\ Returned =>
              /\ Len(result.value) = Len(time_entries)
              /\ \A i \in 1..Len(time_entries) :
                    /\ result.value[i].domain = time_entries[i].domain
                    /\ result.value[i].time_spent = time_entries[i].hours
        /\ ( /\ NonNegative(time_entries)
             /\ RLe(Zero, default_priority)
             /\ RLe(default_priority, Rat(1, 1)) ) => Returned

\* Witness of C7: a returned breakdown of two entries of the same domain with
\* different hours.
C7_Witness ==
    /\ IsContributions /\ Returned /\ Len(time_entries) = 2
    /\ time_entries[1].domain = time_entries[2].domain
    /\ time_entries[1].hours # time_entries[2].hours

\* C8: calculate_quality_time_score raises the negative-hours ValueError and
\* returns no score whenever some entry has negative hours, wherever it is.
C8_NegativeHoursRaise ==
    (IsQTS /\ ~NonNegative(time_entries)) => result = Raise("ValueError")

\* Witness of C8: the call raised on a negative entry that is not the first.
C8_Witness ==
    /\ IsQTS /\ result = Raise("ValueError")
    /\ Len(time_entries) = 2
    /\ RLe(Zero, time_entries[1].hours)
    /\ RLt(time_entries[2].hours, Zero)

\* C9: the score of a concatenation is the sum of the scores of its parts
\* under the same priorities: each entry is capped on its own hours, entries
\* of the same domain are not merged.
C9_EntriesScoredIndependently ==
    (IsQTS /\ Returned) =>
        \A k \in 0..Len(time_entries) :
            LET head == calculate_quality_time_score(
                            SubSeq(time_entries, 1, k), priorities,
                            default_priority)
                rest == calculate_quality_time_score(
                            SubSeq(time_entries, k + 1, Len(time_entries)),
                            priorities, default_priority)
            IN  /\ head.status = "ok"
                /\ rest.status = "ok"
                /\ result.value = RAdd(head.value, rest.value)

\* Witness of C9: a score over two entries of one capped domain whose hours
\* together exceed the cap although one of them alone does not.
C9_Witness ==
    /\ IsQTS /\ Returned /\ Len(time_entries) = 2
    /\ time_entries[1].domain = time_entries[2].domain
    /\ LET cap == CapOf(priorities, time_entries[1].domain)
       IN  /\ cap # None
           /\ RLe(time_entries[1].hours, cap)
           /\ RLt(Zero, time_entries[1].hours)
           /\ RLt(Zero, time_entries[2].hours)
           /\ RLt(cap, RAdd(time_entries[1].hours, time_entries[2].hours))
           /\ RLt(Zero, result.value)

(***************************************************************************)
(* Properties of goal alignment and distraction ratio (SpecGoal).          *)
(***************************************************************************)
IsAlignment == op = "calculate_goal_alignment"
IsDistraction == op = "calculate_distraction_ratio"
IsReport == op = "generate_metrics_report"

\* The entries (by position) whose domain some goal lists.
GoalEntries ==
    {i \in 1..Len(time_entries) :
        \E g \in 1..Len(goals) : \E k \in 1..Len(goals[g].domains) :
            goals[g].domains[k] = time_entries[i].domain}

\* The hours of the entries at the positions in S, added up.
RECURSIVE HoursAt(_)
HoursAt(S) ==
    IF S = {} THEN Zero
    ELSE LET i == CHOOSE j \in S : TRUE
         IN  RAdd(time_entries[i].hours, HoursAt(S \ {i}))

TotalHours == HoursAt(1..Len(time_entries))

\* C3: goal alignment + distraction ratio = 100 for the same entries and
\* goals, whichever of the two was called, also for no entries, a zero total
\* and no goal domains; and every returned report has
\* goal_alignment_percent + distraction_percent = 100.
C3_Complementarity ==
    /\ IsDistraction =>
          /\ Returned
          /\ RAdd(calculate_goal_alignment(time_entries, goals).value,
                  result.value) = Hundred
    /\ IsAlignment =>
          /\ Returned
          /\ RAdd(result.value,
                  calculate_distraction_ratio(time_entries, goals).value)
               = Hundred
    /\ (IsReport /\ Returned) =>
          RAdd(result.value.goal_alignment_percent,
               result.value.distraction_percent) = Hundred

\* Witness of C3: a report was returned whose alignment is strictly between
\* 0 and 100.
C3_Witness ==
    /\ IsReport /\ Returned
    /\ RLt(Zero, result.value.goal_alignment_percent)
    /\ RLt(result.value.goal_alignment_percent, Hundred)

\* C4: for non-negative entries of positive total hours,
\* calculate_goal_alignment returns 100 x (hours of the entries whose domain
\* is listed by some goal) / (all hours): a domain listed several times
\* counts once, every entry of a goal domain counts, and the result is within
\* [0, 100].
C4_AlignmentIsGoalShare ==
    (IsAlignment /\ NonNegative(time_entries) /\ RLt(Zero, TotalHours)) =>
        /\ Returned
        /\ RMul(result.value, TotalHours)
             = RMul(Hundred, HoursAt(GoalEntries))
        /\ RLe(Zero, result.value)
        /\ RLe(result.value, Hundred)

\* Witness of C4: an alignment strictly between 0 and 100 where the aligned
\* domain is listed by two goals.
C4_Witness ==
    /\ IsAlignment /\ Returned
    /\ RLt(Zero, result.value) /\ RLt(result.value, Hundred)
    /\ \E i \in GoalEntries :
          \E g1, g2 \in 1..Len(goals) :
              /\ g1 # g2
              /\ \E k \in 1..Len(goals[g1].domains) :
                    goals[g1].domains[k] = time_entries[i].domain
              /\ \E k \in 1..Len(goals[g2].domains) :
                    goals[g2].domains[k] = time_entries[i].domain

\* C5: calculate_goal_alignment returns 0.0, and does not raise, when there
\* are no entries, when the hours total 0, or when the goals list no domain
\* (no goals, or only goals with empty domain lists).
C5_AlignmentZeroSentinels ==
    ( /\ IsAlignment
      /\ \/ time_entries = <<>>
         \/ TotalHours = Zero
         \/ \A g \in 1..Len(goals) : goals[g].domains = <<>> )
    => result = Ok(Zero)

\* Witness of C5: the call returned 0.0 for entries that are there but total
\* zero hours, with a goal that lists their domain.
C5_Witness ==
    /\ IsAlignment /\ result = Ok(Zero)
    /\ time_entries # <<>>
    /\ TotalHours = Zero
    /\ GoalEntries # {}

(***************************************************************************)
(* Properties of the actionability score (SpecAction).                     *)
(***************************************************************************)
IsActionability == op = "calculate_actionability_score"
IsActionabilityFromLog == op = "calculate_actionability_score_from_log"

\* bookmarked x w_b + shared x w_s + applied x w_a, the weights being
\* 0.3 / 0.5 / 1.0 when none are given.
WeightedActions ==
    LET w_b == IF weights = None THEN Rat(3, 10) ELSE weights.bookmarked
        w_s == IF weights = None THEN Rat(1, 2) ELSE weights.shared
        w_a == IF weights = None THEN Rat(1, 1) ELSE weights.applied
    IN  RAdd(RMul(Rat(actions.applied, 1), w_a),
             RAdd(RMul(Rat(actions.shared, 1), w_s),
                  RMul(Rat(actions.bookmarked, 1), w_b)))

\* C10: calculate_actionability_score returns 0.0 when consumed = 0 whatever
\* the counts and weights, and the weighted actions divided by consumed
\* otherwise (weights 0.3 / 0.5 / 1.0 by default);
\* calculate_actionability_score_from_log returns the same value for a log
\* of the same counts and the same weights.
C10_Actionability ==
    (IsActionability \/ IsActionabilityFromLog) =>
        /\ Returned
        /\ actions.consumed = 0 => result.value = Zero
        /\ actions.consumed # 0 =>
              RMul(result.value, Rat(actions.consumed, 1)) = WeightedActions
        /\ IsActionabilityFromLog =>
              result = calculate_actionability_score(
                           actions.consumed, actions.bookmarked,
                           actions.shared, actions.applied, weights)
        /\ IsActionability =>
              result = calculate_actionability_score_from_log(actions,
                                                              weights)

\* Witness of C10: the log variant returned a non-zero score under custom
\* weights, every count being positive.
C10_Witness ==
    /\ IsActionabilityFromLog /\ Returned
    /\ weights # None
    /\ actions.consumed > 0 /\ actions.bookmarked > 0
    /\ actions.shared > 0 /\ actions.applied > 0
    /\ RLt(Zero, result.value)

(***************************************************************************)
(* SpecLocality: the locality score.                                       *)
(***************************************************************************)
InitLocality ==
    /\ time_entries = <<>>
    /\ priorities = <<>>
    /\ default_priority = DefaultPriority
    /\ goals = <<>>
    /\ actions = None
    /\ weights = None
    /\ period = "daily"
    /\ given_alignment = Zero
    /\ local_relevance \in LocalityValues
    /\ engagement \in LocalityValues
    /\ op = "none"
    /\ result = NoResult
    /\ soft_min_args = NoSoftMinArgs
    /\ calls = <<>>

NextLocality == CallLocalityScore

SpecLocality == InitLocality /\ [][NextLocality]_vars

IsLocality == op = "calculate_locality_score"

\* x < 0 or x > 1.
Outside01(x) == RLt(x, Zero) \/ RLt(Rat(1, 1), x)

\* C11: calculate_locality_score raises its range error exactly when
\* local_relevance or engagement is below 0 or above 1 (0 and 1 are
\* accepted); the error names local_relevance when that one is out of range
\* (also when both are) and engagement otherwise; when nothing is out of
\* range the result is local_relevance x engagement, within [0, 1].
C11_LocalityRange ==
    IsLocality =>
        /\ (result.status = "error")
             <=> (Outside01(local_relevance) \/ Outside01(engagement))
        /\ Outside01(local_relevance) =>
              result = Raise(
                  "ValueError: local_relevance must be between 0.0 and 1.0")
        /\ (~Outside01(local_relevance) /\ Outside01(engagement)) =>
              result = Raise(
                  "ValueError: engagement must be between 0.0 and 1.0")
        /\ (~Outside01(local_relevance) /\ ~Outside01(engagement)) =>
              /\ result = Ok(RMul(engagement, local_relevance))
              /\ RLe(Zero, result.value)
              /\ RLe(result.value, Rat(1, 1))

\* Witness of C11: the call raised on local_relevance with both arguments
\* out of range.
C11_Witness ==
    /\ IsLocality
    /\ RLt(Rat(1, 1), local_relevance)
    /\ RLt(engagement, Zero)
    /\ result.status = "error"

(***************************************************************************)
(* SpecRecs: the recommendation engine called on its own.  Two of its      *)
(* arguments vary at a time: the alignment and the goals (rules 1 and 5),  *)
(* the entries and the priorities (rules 2 and 3), the entries and the     *)
(* goals (rule 4).                                                         *)
(***************************************************************************)
InitRecs ==
    /\ \/ /\ time_entries = FixedEntries
          /\ priorities = ReportPriorities
          /\ goals \in SeqsUpTo(RecGoals, MaxGoals)
          /\ given_alignment \in AlignmentValues
       \/ /\ time_entries \in SeqsUpTo(RecEntries, MaxEntries)
          /\ priorities \in SeqsUpTo(RecPriorities, MaxPriorities)
          /\ goals = FixedGoals
          /\ given_alignment = FixedAlignment
       \/ /\ time_entries \in SeqsUpTo(RecEntries, MaxEntries)
          /\ priorities = ReportPriorities
          /\ goals \in SeqsUpTo(RecGoals, MaxGoals)
          /\ given_alignment = FixedAlignment
    /\ default_priority = DefaultPriority
    /\ actions = None
    /\ weights = None
    /\ period = "daily"
    /\ local_relevance = Zero
    /\ engagement = Zero
    /\ soft_min_args = NoSoftMinArgs
    /\ op = "none"
    /\ result = NoResult
    /\ calls = <<>>

NextRecs == CallGenerateRecommendations

SpecRecs == InitRecs /\ [][NextRecs]_vars

IsRecs == op = "generate_recommendations"

\* Which rule a recommendation comes from, read off its message.
IsLowAlignmentRec(r) == r.message[1] = "Goal alignment is only"
IsCapRec(r) == r.message[1] = "over your cap"
IsLowPriorityRec(r) == r.message[1] = "low-priority domain"
IsUnderTargetRec(r) == r.message[1] = "behind target"
IsMaintainRec(r) == r.message[1] = "Great job! Goal alignment is"

\* The domains of a sequence of recommendations or of entries, in order.
DomainsOf(seq) == [i \in 1..Len(seq) |-> seq[i].domain]

\* The domains the goals list.
ListedDomains == UNION {{goals[g].domains[k] : k \in 1..Len(goals[g].domains)} : g \in 1..Len(goals)}

\* C12: the low-alignment recommendation (increase / high) is emitted once
\* when goal_alignment < 30.0 and some goal lists a domain, and not at all
\* otherwise; the domain it names is one the goals list.
C12_LowAlignmentRule ==
    IsRecs =>
        LET recs == SelectSeq(result.value, IsLowAlignmentRec)
        IN  IF RLt(given_alignment, Rat(30, 1)) /\ ListedDomains # {}
            THEN /\ Len(recs) = 1
                 /\ recs[1].type = "increase"
                 /\ recs[1].priority = "high"
                 /\ recs[1].domain \in ListedDomains
            ELSE recs = <<>>

\* Alignment below 30 with two listed domains, and the recommendation names
\* the one that is not listed first.
C12_Witness ==
    /\ IsRecs
    /\ RLt(given_alignment, Rat(30, 1))
    /\ Len(goals) > 0 /\ Len(goals[1].domains) > 0
    /\ \E i \in 1..Len(result.value) :
           /\ IsLowAlignmentRec(result.value[i])
           /\ result.value[i].domain # goals[1].domains[1]

\* An entry is over its cap: its domain's record has a cap and the hours
\* are strictly greater.
OverCap(entry) == CapOf(priorities, entry.domain) # None /\ RLt(CapOf(priorities, entry.domain), entry.hours)

\* C13: one cap-exceeded recommendation (decrease / medium, the entry's
\* domain) per entry whose domain has a cap and whose hours are strictly
\* above it, in entry order, and none for any other entry.
C13_CapExceededRule ==
    IsRecs =>
        LET recs == SelectSeq(result.value, IsCapRec)
        IN  /\ DomainsOf(recs) = DomainsOf(SelectSeq(time_entries, OverCap))
            /\ \A i \in 1..Len(recs) :
                   recs[i].type = "decrease" /\ recs[i].priority = "medium"

\* Two entries: the second over its cap, the first at its cap or
\* without a cap, with exactly one cap recommendation.
C13_Witness ==
    /\ IsRecs
    /\ Len(time_entries) = 2
    /\ OverCap(time_entries[2])
    /\ ~OverCap(time_entries[1])
    /\ \/ CapOf(priorities, time_entries[1].domain) = time_entries[1].hours
       \/ CapOf(priorities, time_entries[1].domain) = None
    /\ Len(SelectSeq(result.value, IsCapRec)) = 1

\* An entry of a low-priority domain with more than two hours; an entry
\* without a record resolves to 0.5.
LowPriorityHigh(entry) == RLt(PriorityOf(priorities, entry.domain, Rat(1, 2)), Rat(3, 10)) /\ RLt(Rat(2, 1), entry.hours)

\* C14: one low-priority recommendation (decrease / medium) per entry whose
\* resolved priority is < 0.3 and whose hours are > 2.0, none for any other
\* entry: not for an unmatched entry, priority 0.3 or hours 2.0.
C14_LowPriorityRule ==
    IsRecs =>
        LET recs == SelectSeq(result.value, IsLowPriorityRec)
        IN  /\ DomainsOf(recs) = DomainsOf(SelectSeq(time_entries, LowPriorityHigh))
            /\ \A i \in 1..Len(recs) :
                   recs[i].type = "decrease" /\ recs[i].priority = "medium"

\* An unmatched entry with more than two hours next to a triggering entry.
C14_Witness ==
    /\ IsRecs
    /\ Len(time_entries) = 2
    /\ Matching(priorities, time_entries[1].domain) = None
    /\ RLt(Rat(2, 1), time_entries[1].hours)
    /\ LowPriorityHigh(time_entries[2])
    /\ Len(SelectSeq(result.value, IsLowPriorityRec)) = 1

\* C16: exactly one maintain / low recommendation when goal_alignment >=
\* 50.0, none when it is below, whatever the other arguments.
C16_MaintainRule ==
    IsRecs =>
        LET recs == SelectSeq(result.value, IsMaintainRec)
            typed == {i \in 1..Len(result.value) : result.value[i].type = "maintain"}
        IN  IF RLe(Rat(50, 1), given_alignment)
            THEN /\ Len(recs) = 1
                 /\ Cardinality(typed) = 1
                 /\ recs[1].type = "maintain"
                 /\ recs[1].priority = "low"
            ELSE recs = <<>> /\ typed = {}

\* Alignment exactly 50 with goals given: the last recommendation is the
\* maintain one.
C16_Witness ==
    /\ IsRecs
    /\ given_alignment = Rat(50, 1)
    /\ goals # <<>>
    /\ result.value # <<>>
    /\ result.value[Len(result.value)].type = "maintain"

\* The hours of all the entries whose domain is one of the goal's domains.
GoalSum(goal) == HoursAt({i \in 1..Len(time_entries) : \E k \in 1..Len(goal.domains) : goal.domains[k] = time_entries[i].domain})

\* A goal with a target whose summed hours are under half of it.
BehindTarget(goal) == goal.target_hours_per_week # None /\ RLt(GoalSum(goal), RMul(goal.target_hours_per_week, Rat(1, 2)))

\* The domain an under-target recommendation names.
NamedDomain(goal) == IF goal.domains # <<>> THEN goal.domains[1] ELSE "goal_activities"

\* C15: for every goal with a target, one under-target recommendation
\* (increase / high, naming the goal's first domain or the placeholder) if
\* and only if the hours of all the entries whose domain is one of the
\* goal's domains sum to less than half the target; none for a goal
\* without a target.
C15_UnderTargetRule ==
    IsRecs =>
        LET recs == SelectSeq(result.value, IsUnderTargetRec)
            behind == SelectSeq(goals, BehindTarget)
        IN  /\ DomainsOf(recs) = [i \in 1..Len(behind) |-> NamedDomain(behind[i])]
            /\ \A i \in 1..Len(recs) :
                   recs[i].type = "increase" /\ recs[i].priority = "high"

(***************************************************************************)
(* SpecReport: the assembler called with and without a log, under each     *)
(* period label and without one.                                           *)
(***************************************************************************)
InitReport ==
    /\ time_entries \in SeqsUpTo(TrackedEntries, MaxEntries)
    /\ priorities \in {ReportPriorities, <<>>}
    /\ default_priority = DefaultPriority
    /\ goals \in ReportGoals
    /\ actions \in ReportLogs
    /\ weights = None
    /\ period \in PeriodValues
    /\ given_alignment = Zero
    /\ local_relevance = Zero
    /\ engagement = Zero
    /\ soft_min_args = NoSoftMinArgs
    /\ op = "none"
    /\ result = NoResult
    /\ calls = <<>>

NextReport == CallGenerateMetricsReport

SpecReport == InitReport /\ [][NextReport]_vars

\* How many times a calculator was entered, in all and from the assembler's
\* own body.
Invocations(fn) == Cardinality({i \in 1..Len(calls) : calls[i].fn = fn})
DirectInvocations(fn) == Cardinality({i \in 1..Len(calls) : calls[i].fn = fn /\ calls[i].by = "generate_metrics_report"})

Calculators == {"calculate_quality_time_score", "calculate_goal_alignment", "calculate_distraction_ratio", "calculate_actionability_score_from_log", "calculate_domain_contributions", "generate_recommendations"}

\* C17 as stated: during one generate_metrics_report call each calculator
\* is invoked exactly once, invocations made through another calculator
\* included.
C17_EachCalculatorOnce ==
    IsReport => \A fn \in Calculators : Invocations(fn) = 1

\* C17 amended: the assembler's own body calls each calculator once
\* (calculate_actionability_score_from_log only when a log is given);
\* with the invocations made through another calculator
\* calculate_goal_alignment is entered twice, the second time by
\* calculate_distraction_ratio, and every other calculator as often as the
\* assembler calls it.
C17_DirectCallsOnce ==
    IsReport =>
        /\ Returned
        /\ \A fn \in Calculators \ {"calculate_actionability_score_from_log"} :
               DirectInvocations(fn) = 1
        /\ DirectInvocations("calculate_actionability_score_from_log")
               = (IF actions = None THEN 0 ELSE 1)
        /\ Invocations("calculate_goal_alignment") = 2
        /\ \E i \in 1..Len(calls) :
               calls[i] = Invoke("calculate_goal_alignment",
                                 "calculate_distraction_ratio")
        /\ \A fn \in Calculators \ {"calculate_goal_alignment"} :
               Invocations(fn) = DirectInvocations(fn)

\* A report assembled from a log: eight calculators entered, two of them
\* by another calculator.
C17_Witness ==
    /\ IsReport
    /\ actions # None
    /\ time_entries # <<>>
    /\ Len(calls) = 8

\* A report with its period label blanked.
Unlabelled(report) == [report EXCEPT !.period = "-"]

\* C18: the period label is opaque.  The report carries the label passed
\* in (daily when omitted), and the same call under either label returns a
\* report that agrees with it on every other field.
C18_PeriodOpaque ==
    IsReport =>
        /\ Returned
        /\ result.value.period = (IF period = Omitted THEN "daily" ELSE period)
        /\ \E first \in FirstIterated(goals) :
               /\ result = generate_metrics_report(
                               time_entries, priorities, goals, actions,
                               result.value.period, first)
               /\ \A p \in {"daily", "weekly"} :
                      LET other == generate_metrics_report(
                                       time_entries, priorities, goals,
                                       actions, p, first)
                      IN  /\ other.status = "ok"
                          /\ other.value.period = p
                          /\ Unlabelled(other.value) = Unlabelled(result.value)

\* A weekly report over tracked hours, with recommendations.
C18_Witness ==
    /\ IsReport
    /\ period = "weekly"
    /\ result.value.period = "weekly"
    /\ RLt(Zero, result.value.raw_time_hours)
    /\ result.value.recommendations # <<>>

\* bookmarked x 0.3 + shared x 0.5 + applied x 1.0 of a log.
DefaultWeighted(log) == RAdd(RMul(Rat(log.bookmarked, 1), Rat(3, 10)), RAdd(RMul(Rat(log.shared, 1), Rat(1, 2)), Rat(log.applied, 1)))

\* C19: the report's actionability_score is 0.0, without error, when no
\* log is supplied, and otherwise the log's score under the weights
\* 0.3 / 0.5 / 1.0: 0.0 when nothing was consumed, else the weighted
\* actions divided by consumed.
C19_ReportActionability ==
    IsReport =>
        /\ Returned
        /\ actions = None => result.value.actionability_score = Zero
        /\ actions # None =>
              IF actions.consumed = 0
              THEN result.value.actionability_score = Zero
              ELSE RMul(result.value.actionability_score,
                        Rat(actions.consumed, 1)) = DefaultWeighted(actions)

\* A report assembled without a log.
C19_Witness ==
    /\ IsReport
    /\ actions = None
    /\ Returned
    /\ result.value.actionability_score = Zero
    /\ time_entries # <<>>

\* sum(r.time_spent for r in records).
RECURSIVE SumTimeSpent(_)
SumTimeSpent(records) ==
    IF records = <<>> THEN Zero
    ELSE RAdd(SumTimeSpent(SubSeq(records, 1, Len(records) - 1)),
              records[Len(records)].time_spent)

\* C20: raw_time_hours is the plain sum of the entries' hours, caps and
\* priorities ignored, and equals the sum of time_spent over by_domain.
C20_RawTimeIsSum ==
    IsReport =>
        /\ Returned
        /\ result.value.raw_time_hours = TotalHours
        /\ result.value.raw_time_hours = SumTimeSpent(result.value.by_domain)

\* Two entries of one capped domain, one of them over the cap: the raw
\* time exceeds the effective time.
C20_Witness ==
    /\ IsReport
    /\ Len(time_entries) = 2
    /\ time_entries[1].domain = time_entries[2].domain
    /\ RLt(Zero, time_entries[1].hours)
    /\ RLt(Rat(2, 1), time_entries[2].hours)
    /\ RLt(result.value.by_domain[2].effective_time,
           result.value.by_domain[2].time_spent)
    /\ result.value.raw_time_hours
           = RAdd(time_entries[1].hours, time_entries[2].hours)

(***************************************************************************)
(* SpecUnvalidated: the assembler called on records that bypassed          *)
(* validation (negative hours, a priority above 1) next to valid ones.     *)
(***************************************************************************)
InitUnvalidated ==
    /\ time_entries \in SeqsUpTo(TimeEntries, MaxEntries)
    /\ priorities \in {ReportPriorities, UnvalidatedPriorities}
    /\ default_priority = DefaultPriority
    /\ goals \in ReportGoals
    /\ actions \in {None, ActionLog(2, 1, 0, 1)}
    /\ weights = None
    /\ period = "daily"
    /\ given_alignment = Zero
    /\ local_relevance = Zero
    /\ engagement = Zero
    /\ soft_min_args = NoSoftMinArgs
    /\ op = "none"
    /\ result = NoResult
    /\ calls = <<>>

NextUnvalidated == CallGenerateMetricsReport

SpecUnvalidated == InitUnvalidated /\ [][NextUnvalidated]_vars

ReportFields == {"period", "quality_time_score", "raw_time_hours", "goal_alignment_percent", "distraction_percent", "actionability_score", "by_domain", "recommendations"}

\* What each step of the build returns or raises when run on its own, in
\* build order; the recommendations never raise.
BuildSteps ==
    <<calculate_quality_time_score(time_entries, priorities, DefaultPriority),
      calculate_goal_alignment(time_entries, goals),
      calculate_distraction_ratio(time_entries, goals),
      IF actions = None THEN Ok(Zero)
      ELSE calculate_actionability_score_from_log(actions, None),
      calculate_domain_contributions(time_entries, priorities,
                                     DefaultPriority)>>

FailingSteps == {i \in 1..Len(BuildSteps) : BuildSteps[i].status = "error"}

\* C21: the assembler returns a complete report or raises the first error
\* met in build order (report construction last); an entry with negative
\* hours makes it raise the QTS calculator's ValueError.
C21_NoPartialOutcome ==
    IsReport =>
        /\ result.status \in {"ok", "error"}
        /\ result.status = "ok" =>
               FailingSteps = {} /\ DOMAIN result.value = ReportFields
        /\ FailingSteps # {} =>
               result = BuildSteps[CHOOSE i \in FailingSteps :
                                       \A j \in FailingSteps : i <= j]
        /\ ~NonNegative(time_entries) => result = Raise("ValueError")

\* Negative hours in the second entry together with a priority record the
\* breakdown would reject: the QTS error is the one raised.
C21_Witness ==
    /\ IsReport
    /\ Len(time_entries) = 2
    /\ time_entries[1].domain = "learning"
    /\ RLt(time_entries[2].hours, Zero)
    /\ priorities = UnvalidatedPriorities
    /\ BuildSteps[5].status = "error"
    /\ result = Raise("ValueError")

\* C22: on well-formed input (hours >= 0, priorities in [0, 1], caps > 0,
\* non-negative counts) the assembler returns a report and never raises,
\* also with no tracked time, nothing consumed or empty sequences; the
\* report has quality_time_score >= 0, raw_time_hours >= 0 and both
\* percentages within [0, 100].
C22_TotalOnWellFormedInput ==
    IsReport =>
        /\ Returned
        /\ RLe(Zero, result.value.quality_time_score)
        /\ RLe(Zero, result.value.raw_time_hours)
        /\ RLe(Zero, result.value.goal_alignment_percent)
        /\ RLe(result.value.goal_alignment_percent, Hundred)
        /\ RLe(Zero, result.value.distraction_percent)
        /\ RLe(result.value.distraction_percent, Hundred)

\* Every input sequence empty and no log: a report all the same.
C22_Witness ==
    /\ IsReport
    /\ time_entries = <<>> /\ priorities = <<>> /\ goals = <<>>
    /\ actions = None
    /\ Returned
    /\ result.value.raw_time_hours = Zero
    /\ result.value.distraction_percent = Hundred

\* The recommendation sequence an evaluation of operation o returned.
RecsOf(o, r) == IF r.status # "ok" THEN <<>> ELSE IF o = "generate_metrics_report" THEN r.value.recommendations ELSE r.value

\* C23: two evaluations of generate_recommendations (or of
\* generate_metrics_report) on equal inputs return equal recommendation
\* sequences, the domain named by the low-alignment recommendation
\* included.
C23_EqualInputsEqualRecs ==
    [][(op \in {"generate_recommendations", "generate_metrics_report"}
        /\ op' = op /\ inputs' = inputs)
           => RecsOf(op', result') = RecsOf(op, result)]_vars

\* The rule a recommendation comes from, 1 to 5.
RuleOf(r) == IF IsLowAlignmentRec(r) THEN 1 ELSE IF IsCapRec(r) THEN 2 ELSE IF IsLowPriorityRec(r) THEN 3 ELSE IF IsUnderTargetRec(r) THEN 4 ELSE IF IsMaintainRec(r) THEN 5 ELSE 0

\* s can be obtained from t by leaving elements out.
RECURSIVE IsSubsequence(_, _)
IsSubsequence(s, t) ==
    IF s = <<>> THEN TRUE
    ELSE IF t = <<>> THEN FALSE
    ELSE IF s[1] = t[1] THEN IsSubsequence(Tail(s), Tail(t))
    ELSE IsSubsequence(s, Tail(t))

\* The goal each under-target recommendation reports on.
GoalNamesOf(recs) == [i \in 1..Len(recs) |-> recs[i].message[2]]

\* C26: the output is the concatenation, in this order, of the
\* low-alignment recommendation, the cap-exceeded ones in entry order, the
\* low-priority ones in entry order, the under-target ones in goal order
\* and the maintain one; every rule is evaluated and nothing is
\* deduplicated, so an entry over its cap with priority < 0.3 and more than
\* 2.0 hours yields two decrease recommendations for its domain.
C26_RulesInFixedOrder ==
    IsRecs =>
        LET recs == result.value
            entry_rules == Len(SelectSeq(time_entries, OverCap))
                           + Len(SelectSeq(time_entries, LowPriorityHigh))
            alignment_rules ==
                (IF RLt(given_alignment, Rat(30, 1)) /\ ListedDomains # {}
                 THEN 1 ELSE 0)
                + (IF RLe(Rat(50, 1), given_alignment) THEN 1 ELSE 0)
        IN  /\ \A i \in 1..Len(recs) : RuleOf(recs[i]) \in 1..5
            /\ \A i, j \in 1..Len(recs) :
                   i <= j => RuleOf(recs[i]) <= RuleOf(recs[j])
            /\ DomainsOf(SelectSeq(recs, IsCapRec))
                   = DomainsOf(SelectSeq(time_entries, OverCap))
            /\ DomainsOf(SelectSeq(recs, IsLowPriorityRec))
                   = DomainsOf(SelectSeq(time_entries, LowPriorityHigh))
            /\ IsSubsequence(GoalNamesOf(SelectSeq(recs, IsUnderTargetRec)),
                             [g \in 1..Len(goals) |-> goals[g].name])
            /\ Len(recs) = alignment_rules + entry_rules
                           + Len(SelectSeq(recs, IsUnderTargetRec))

\* Rules 1 to 4 all fire, one entry triggering both rule 2 and rule 3.
C26_Witness ==
    /\ IsRecs
    /\ \E i \in 1..Len(time_entries) :
           OverCap(time_entries[i]) /\ LowPriorityHigh(time_entries[i])
    /\ Len(result.value) >= 4
    /\ RuleOf(result.value[1]) = 1
    /\ RuleOf(result.value[2]) = 2
    /\ RuleOf(result.value[3]) = 3
    /\ result.value[2].domain = result.value[3].domain
    /\ RuleOf(result.value[4]) = 4

\* C27: no output holds both the low-alignment recommendation and the
\* maintain recommendation, and for 30.0 <= goal_alignment < 50.0 it holds
\* neither.
C27_LowAlignmentExcludesMaintain ==
    IsRecs =>
        LET low == SelectSeq(result.value, IsLowAlignmentRec)
            maintain == SelectSeq(result.value, IsMaintainRec)
        IN  /\ low = <<>> \/ maintain = <<>>
            /\ (RLe(Rat(30, 1), given_alignment)
                /\ RLt(given_alignment, Rat(50, 1)))
                   => low = <<>> /\ maintain = <<>>

\* Alignment 49.5 with goal domains and other rules firing: neither of the
\* two is in the output.
C27_Witness ==
    /\ IsRecs
    /\ given_alignment = Rat(99, 2)
    /\ ListedDomains # {}
    /\ result.value # <<>>
    /\ \A i \in 1..Len(result.value) : RuleOf(result.value[i]) \in 2..4

\* A breakdown record whose effective time was reduced by the cap.
Reduced(record) == RLt(record.effective_time, record.time_spent)

\* C28: on the same well-formed entries and priorities, the entries that
\* get a cap-exceeded recommendation are those whose breakdown record has
\* effective_time < time_spent, position by position, and there are as
\* many such recommendations as such records.
C28_CapRuleMatchesBreakdown ==
    IsRecs =>
        LET breakdown == calculate_domain_contributions(
                             time_entries, priorities, default_priority)
            recs == SelectSeq(result.value, IsCapRec)
        IN  /\ breakdown.status = "ok"
            /\ Len(breakdown.value) = Len(time_entries)
            /\ \A i \in 1..Len(time_entries) :
                   Reduced(breakdown.value[i]) <=> OverCap(time_entries[i])
            /\ DomainsOf(recs) = DomainsOf(SelectSeq(breakdown.value, Reduced))
            /\ Len(recs) = Len(SelectSeq(breakdown.value, Reduced))

\* The second of two entries is over its cap, the first is not: one
\* recommendation and one reduced record, the second.
C28_Witness ==
    /\ IsRecs
    /\ Len(time_entries) = 2
    /\ ~OverCap(time_entries[1])
    /\ CapOf(priorities, time_entries[1].domain) # None
    /\ OverCap(time_entries[2])
    /\ Len(SelectSeq(result.value, IsCapRec)) = 1

(***************************************************************************)
(* SpecResolve: the three operations that look priorities up, called on    *)
(* the same entries and priorities, several records of one domain among    *)
(* them.                                                                   *)
(***************************************************************************)
InitResolve ==
    /\ time_entries \in SeqsUpTo(RecEntries, MaxEntries)
    /\ priorities \in SeqsUpTo(RecPriorities, MaxPriorities)
    /\ default_priority = DefaultPriority
    /\ goals = FixedGoals
    /\ given_alignment = FixedAlignment
    /\ actions = None
    /\ weights = None
    /\ period = "daily"
    /\ local_relevance = Zero
    /\ engagement = Zero
    /\ soft_min_args = NoSoftMinArgs
    /\ op = "none"
    /\ result = NoResult
    /\ calls = <<>>

NextResolve ==
    \/ CallQualityTimeScore
    \/ CallDomainContributions
    \/ CallGenerateRecommendations

SpecResolve == InitResolve /\ [][NextResolve]_vars

\* C29: with several priority records of one domain, the QTS, the
\* breakdown and the recommendations all use the last one, its priority and
\* its cap (or absence of cap), so they agree on every entry.
C29_LastRecordWins ==
    /\ IsQTS => result = Ok(WeightedSum(time_entries, priorities, default_priority))
    /\ IsContributions =>
           /\ Returned
           /\ \A i \in 1..Len(time_entries) :
                  /\ result.value[i].priority
                         = PriorityOf(priorities, time_entries[i].domain,
                                      default_priority)
                  /\ result.value[i].effective_time
                         = Capped(time_entries[i].hours,
                                  CapOf(priorities, time_entries[i].domain))
    /\ IsRecs =>
           /\ DomainsOf(SelectSeq(result.value, IsCapRec))
                  = DomainsOf(SelectSeq(time_entries, OverCap))
           /\ DomainsOf(SelectSeq(result.value, IsLowPriorityRec))
                  = DomainsOf(SelectSeq(time_entries, LowPriorityHigh))

\* Two records of one domain that differ in priority and in cap, the last
\* one without a cap, and an entry of that domain that the first record
\* alone would have flagged as over its cap.
C29_Witness ==
    /\ IsRecs
    /\ Len(priorities) = 2
    /\ priorities[1].domain = priorities[2].domain
    /\ priorities[1].max_daily_hours # None
    /\ priorities[2].max_daily_hours = None
    /\ \E i \in 1..Len(time_entries) :
           /\ time_entries[i].domain = priorities[1].domain
           /\ RLt(priorities[1].max_daily_hours, time_entries[i].hours)
    /\ SelectSeq(result.value, IsCapRec) = <<>>

\* C30: in every report built from well-formed input, quality_time_score is
\* the sum of contribution over by_domain and is at most raw_time_hours.
C30_ReportScoreWithinRawTime ==
    IsReport =>
        /\ Returned
        /\ result.value.quality_time_score
               = SumContribution(result.value.by_domain)
        /\ RLe(result.value.quality_time_score, result.value.raw_time_hours)

\* Two tracked entries, one weighted below 1: a positive score strictly
\* under the raw time.
C30_Witness ==
    /\ IsReport
    /\ Len(result.value.by_domain) = 2
    /\ RLt(Zero, result.value.quality_time_score)
    /\ RLt(result.value.by_domain[2].priority, Rat(1, 1))
    /\ RLt(result.value.quality_time_score, result.value.raw_time_hours)

(***************************************************************************)
(* SpecSoftMin: soft_min on pairs of floats, under the default alpha, 1,   *)
(* -1 and 0.                                                               *)
(***************************************************************************)
InitSoftMin ==
    /\ soft_min_args \in {SoftMinArgs(a, b, alpha) : a \in SoftMinValues, b \in SoftMinValues, alpha \in AlphaValues}
    /\ time_entries = <<>>
    /\ priorities = <<>>
    /\ default_priority = DefaultPriority
    /\ goals = <<>>
    /\ actions = None
    /\ weights = None
    /\ period = "daily"
    /\ given_alignment = Zero
    /\ local_relevance = Zero
    /\ engagement = Zero
    /\ op = "none"
    /\ result = NoResult
    /\ calls = <<>>

NextSoftMin == CallSoftMin

SpecSoftMin == InitSoftMin /\ [][NextSoftMin]_vars

IsSoftMin == op = "soft_min"

\* C24: soft_min(a, b, alpha) <= min(a, b) for every alpha > 0, and for
\* equal inputs the result is a - ln(2)/alpha, strictly below a.
C24_SoftMinBelowMin ==
    (IsSoftMin /\ RLt(Zero, soft_min_args.alpha)) =>
        /\ Returned
        /\ RLe(result.value, RMin(soft_min_args.a, soft_min_args.b))
        /\ soft_min_args.a = soft_min_args.b =>
               /\ result.value = FSub(soft_min_args.a,
                                      FDiv(Log(Rat(2, 1)), soft_min_args.alpha))
               /\ RLt(result.value, soft_min_args.a)

\* C25: soft_min(a, b, alpha) == soft_min(b, a, alpha) for every non-zero
\* alpha.
C25_SoftMinSymmetric ==
    (IsSoftMin /\ soft_min_args.alpha # Zero) =>
        /\ Returned
        /\ result = soft_min(soft_min_args.b, soft_min_args.a,
                             soft_min_args.alpha)

\* Distinct arguments under the default alpha, the larger one first.
C25_Witness ==
    /\ IsSoftMin
    /\ soft_min_args.alpha = Rat(10, 1)
    /\ RLt(soft_min_args.b, soft_min_args.a)
    /\ Returned
    /\ RLt(result.value, soft_min_args.b)

====
